---------------------------- MODULE Spec2Model ----------------------------
(***************************************************************************)
(* A model of server/app.py: the PDF question-answering backend.           *)
(*                                                                         *)
(* The program state is the module's globals (client, notes_pdf_path,      *)
(* paper_pdf_path, document_text_chunks, query_history) together with the  *)
(* temporary directory the uploads are saved to.  Python strings are       *)
(* modelled as sequences of one-character strings, and the string          *)
(* operations the handlers use (lower, strip, split, replace, in, slicing, *)
(* join, the regular expressions) are computed on those sequences.         *)
(*                                                                         *)
(* Spec     : the three endpoints run one request at a time.               *)
(* SpecConc : a thread serving /upload-notes requests and a thread serving *)
(*            /query requests interleave between accesses of the globals.  *)
(***************************************************************************)
EXTENDS Integers, Sequences, FiniteSets, TLC

(***************************************************************************)
(* Python strings                                                          *)
(***************************************************************************)
\* Python's None: a one-element sequence that is no string of characters
None == <<"None">>

UpperChars == <<"A","B","C","D","E","F","G","H","I","J","K","L","M","N","O","P","Q","R","S","T","U","V","W","X","Y","Z">>
LowerChars == <<"a","b","c","d","e","f","g","h","i","j","k","l","m","n","o","p","q","r","s","t","u","v","w","x","y","z">>
DigitChars == <<"0","1","2","3","4","5","6","7","8","9">>

SetOf(s) == {s[i] : i \in 1..Len(s)}

Min(S) == CHOOSE x \in S : \A y \in S : x <= y

Whitespace == {" ", "\n", "\t", "\r"}
Uppers == SetOf(UpperChars)
Letters == SetOf(UpperChars) \cup SetOf(LowerChars)
Digits == SetOf(DigitChars)

IsSpace(c) == c \in Whitespace
IsDigit(c) == c \in Digits
IsAlpha(c) == c \in Letters

\* the lower-case letter of each upper-case one
ToLower == [c \in Uppers |-> LowerChars[CHOOSE i \in 1..26 : UpperChars[i] = c]]

\* str.lower(), one character
LowerChar(c) == IF c \in Uppers THEN ToLower[c] ELSE c

\* str.lower()
Lower(s) == [i \in 1..Len(s) |-> LowerChar(s[i])]

\* s[a:b] with Python's 0-based, end-exclusive, clamped bounds (0 <= a)
Slice(s, a, b) == SubSeq(s, a + 1, IF b > Len(s) THEN Len(s) ELSE b)

\* whether sub occurs in s at the 1-based position i
OccursAt(sub, s, i) ==
    /\ i >= 1
    /\ i + Len(sub) - 1 <= Len(s)
    /\ \A k \in 1..Len(sub) : s[i + k - 1] = sub[k]

\* sub in s
Contains(sub, s) == \E i \in 1..(Len(s) - Len(sub) + 1) : OccursAt(sub, s, i)

\* the 1-based position of the first occurrence of sub in s at or after
\* from, 0 when there is none (str.find, shifted by one)
Find(sub, s, from) ==
    LET hits == {i \in from..(Len(s) - Len(sub) + 1) : OccursAt(sub, s, i)}
    IN IF hits = {} THEN 0 ELSE Min(hits)

\* str.strip()
Strip(s) ==
    LET keep == {i \in 1..Len(s) : ~IsSpace(s[i])}
    IN IF keep = {} THEN <<>>
       ELSE SubSeq(s, Min(keep), CHOOSE j \in keep : \A k \in keep : k <= j)

\* str.split(): the maximal runs of non-whitespace characters, in order
RECURSIVE SplitFrom(_, _)
SplitFrom(s, i) ==
    LET starts == {j \in i..Len(s) : ~IsSpace(s[j])}
    IN IF starts = {} THEN <<>>
       ELSE LET b == Min(starts)
                stops == {j \in b..Len(s) : IsSpace(s[j])}
                e == IF stops = {} THEN Len(s) + 1 ELSE Min(stops)
            IN <<SubSeq(s, b, e - 1)>> \o SplitFrom(s, e)

Split(s) == SplitFrom(s, 1)

\* str.replace(old, ''): the non-overlapping occurrences of old, found left
\* to right, are removed
RECURSIVE RemoveAll(_, _)
RemoveAll(s, old) ==
    LET p == Find(old, s, 1)
    IN IF p = 0 THEN s
       ELSE SubSeq(s, 1, p - 1) \o RemoveAll(SubSeq(s, p + Len(old), Len(s)), old)

\* sep.join(parts)
RECURSIVE Join(_, _)
Join(sep, parts) ==
    IF parts = <<>> THEN <<>>
    ELSE IF Len(parts) = 1 THEN parts[1]
    ELSE parts[1] \o sep \o Join(sep, Tail(parts))

\* str(n) for n >= 0
RECURSIVE IntToStr(_)
IntToStr(n) ==
    IF n < 10 THEN <<DigitChars[n + 1]>>
    ELSE IntToStr(n \div 10) \o <<DigitChars[(n % 10) + 1]>>

DigitValue(c) == (CHOOSE i \in 1..10 : DigitChars[i] = c) - 1

\* int(s) for a non-empty string of digits
RECURSIVE StrToInt(_)
StrToInt(s) ==
    IF Len(s) = 1 THEN DigitValue(s[1])
    ELSE 10 * StrToInt(SubSeq(s, 1, Len(s) - 1)) + DigitValue(s[Len(s)])

\* ''.join(filter(str.isdigit, s))
RECURSIVE OnlyDigits(_)
OnlyDigits(s) ==
    IF s = <<>> THEN <<>>
    ELSE (IF IsDigit(Head(s)) THEN <<Head(s)>> ELSE <<>>) \o OnlyDigits(Tail(s))

\* s.split(sep)[1].split(close)[0]: what lies between the first sep and the
\* next sep (or the end), cut at its first close; None when s.split(sep)
\* has no second element (IndexError)
Between(s, sep, close) ==
    LET p == Find(sep, s, 1)
    IN IF p = 0 THEN None
       ELSE LET after == SubSeq(s, p + Len(sep), Len(s))
                n == Find(sep, after, 1)
                part == IF n = 0 THEN after ELSE SubSeq(after, 1, n - 1)
                q == Find(close, part, 1)
            IN IF q = 0 THEN part ELSE SubSeq(part, 1, q - 1)

\* the position of the first non-whitespace character of s at or after i
\* (Len(s) + 1 when there is none): what a greedy \s* reaches
SkipSpaces(s, i) ==
    LET rest == {j \in i..Len(s) : ~IsSpace(s[j])}
    IN IF rest = {} THEN Len(s) + 1 ELSE Min(rest)

\* the position after the maximal run of digits of s that starts at i (i when
\* s has no digit there): what a greedy \d+ reaches
DigitRunEnd(s, i) ==
    LET rest == {j \in i..Len(s) : ~IsDigit(s[j])}
    IN IF rest = {} THEN Len(s) + 1 ELSE Min(rest)

\* the position where the maximal run of whitespace that ends right before i
\* starts (i when there is none)
SpaceRunStart(s, i) ==
    LET before == {j \in 1..(i - 1) : ~IsSpace(s[j])}
    IN IF before = {} THEN 1 ELSE (CHOOSE j \in before : \A k \in before : k <= j) + 1

(***************************************************************************)
(* Uploaded documents                                                      *)
(*                                                                         *)
(* What the PDF libraries return for a file is an input of the program: a  *)
(* document is the sequence of its pages' extracted texts, and a page on   *)
(* which page.extract_text() raises is the value Corrupt.                  *)
(***************************************************************************)
Corrupt == <<"raises">>

\* n copies of the character c
Fill(c, n) == [i \in 1..n |-> c]

\* a two-page document whose first page is longer than one chunk
PagesA == << <<"t","c","p"," ">> \o Fill("x", 996) \o <<"u","d","p">>, <<"T","C","P"," ","h","a","n","d","s","h","a","k","e">> >>

\* the number of pages of the long document: more than either retrieval cap
LongPages == 33

\* a long document of one-chunk pages, two of them about udp
PagesB == [i \in 1..LongPages |-> IF i \in {2, 5} THEN <<"u","d","p">> ELSE <<"t","c","p">>]

\* a document whose second page cannot be read
PagesC == << <<"t","c","p">>, Corrupt >>

\* a question paper
PagesP == << <<"1","."," ","E","x","t","r","a","c","t"," ","a","l","l"," ","t","e","x","t"," ","o","f"," ","i","t","\n","2",")"," ","w","h","a","t"," ","i","s"," ","t","c","p"," ","a","."," ","y","e","s">> >>

Docs == {"A", "B", "C", "P"}

\* the files sent to /upload-notes and to /upload-paper
NotesDocs == {"A", "B", "C"}
PaperDocs == {"P", "C"}

Pages(d) ==
    CASE d = "A" -> PagesA
      [] d = "B" -> PagesB
      [] d = "C" -> PagesC
      [] d = "P" -> PagesP

\* request.files has no 'pdf' part
NoFile == "nofile"

Filenames == {"f1", "f2"}

\* os.path.join(temp_dir, f"notes_{os.getpid()}_{pdf_file.filename}")
NotesPath(filename) == <<"notes", filename>>

\* os.path.join(temp_dir, f"paper_{os.getpid()}_{pdf_file.filename}")
PaperPath(filename) == <<"paper", filename>>

Paths == {NotesPath(f) : f \in Filenames} \cup {PaperPath(f) : f \in Filenames}

\* no file at a path
Absent == "absent"

(***************************************************************************)
(* extract_text_and_chunk, lines 80-93: the chunks of a document           *)
(***************************************************************************)
chunk_size == 1000

\* source_label
SourceLabel(is_notes_file) == IF is_notes_file THEN <<"[","N","O","T","E","S","]">> ELSE <<"[","P","A","P","E","R","]">>

\* f"{source_label} [Page {page_number}] {chunk}"
FormatChunk(label, page_number, chunk) ==
    label \o <<" ","[","P","a","g","e"," ">> \o IntToStr(page_number) \o <<"]"," ">> \o chunk

\* the inner loop: for j in range(0, len(text), chunk_size)
PageChunks(label, page_number, text) ==
    LET n == (Len(text) + chunk_size - 1) \div chunk_size
    IN [k \in 1..n |->
          FormatChunk(label, page_number,
                      Slice(text, (k - 1) * chunk_size, k * chunk_size))]

\* new_chunks after the pages 1..n have been read
RECURSIVE ChunksUpTo(_, _, _)
ChunksUpTo(pages, label, n) ==
    IF n = 0 THEN <<>>
    ELSE ChunksUpTo(pages, label, n - 1) \o PageChunks(label, n, pages[n])

\* the first page on which extract_text() raises, 0 when all can be read
FirstCorrupt(pages) ==
    LET bad == {i \in 1..Len(pages) : pages[i] = Corrupt}
    IN IF bad = {} THEN 0 ELSE Min(bad)

\* the try block up to line 93: whether it completes, and new_chunks when the
\* loop ends or raises
NewChunks(pages, is_notes_file) ==
    LET bad == FirstCorrupt(pages)
        label == SourceLabel(is_notes_file)
    IN IF bad = 0
       THEN [ok |-> TRUE, chunks |-> ChunksUpTo(pages, label, Len(pages))]
       ELSE [ok |-> FALSE, chunks |-> ChunksUpTo(pages, label, bad - 1)]

(***************************************************************************)
(* get_question_text_from_paper, lines 110-145, and the question-number    *)
(* pattern of handle_query, line 223                                       *)
(***************************************************************************)
\* re.search(r'(q\s*\d+|\s*question\s*\d+|\s*#\s*\d+)', lower_q): the matches
\* of the three alternatives, each as [start, digits, stop): where the match
\* starts, where its digits start and where it ends
QNumCandidates(s) ==
    LET NumberAt(from) == SkipSpaces(s, from)
        Hit(p, word, lead) ==
            /\ OccursAt(word, s, p)
            /\ NumberAt(p + Len(word)) <= Len(s)
            /\ IsDigit(s[NumberAt(p + Len(word))])
        Match(p, word, lead) ==
            [start  |-> IF lead THEN SpaceRunStart(s, p) ELSE p,
             digits |-> NumberAt(p + Len(word)),
             stop   |-> DigitRunEnd(s, NumberAt(p + Len(word)))]
    IN {Match(p, <<"q">>, FALSE) : p \in {i \in 1..Len(s) : Hit(i, <<"q">>, FALSE)}}
       \cup {Match(p, <<"q","u","e","s","t","i","o","n">>, TRUE) :
                p \in {i \in 1..Len(s) : Hit(i, <<"q","u","e","s","t","i","o","n">>, TRUE)}}
       \cup {Match(p, <<"#">>, TRUE) : p \in {i \in 1..Len(s) : Hit(i, <<"#">>, TRUE)}}

\* whether the pattern matches somewhere in s: q_num_match is not None
HasQNum(s) == QNumCandidates(s) # {}

\* the leftmost match
QNumMatch(s) ==
    LET c == QNumCandidates(s)
    IN CHOOSE x \in c : \A y \in c : x.start <= y.start

\* re.search(r'\d+', q_num_match.group().strip()).group(): the digits of the
\* matched question number
QNumDigits(s) ==
    LET m == QNumMatch(s) IN SubSeq(s, m.digits, m.stop - 1)

\* [\.\)\s]
IsSep(c) == c \in {".", ")"} \/ IsSpace(c)

\* the position after the maximal run of [\.\)\s] of s that starts at i
SepRunEnd(s, i) ==
    LET rest == {j \in i..Len(s) : ~IsSep(s[j])}
    IN IF rest = {} THEN Len(s) + 1 ELSE Min(rest)

\* the lookahead (?=\s*(?:Q|Question)?\s*\d+[\.\)\s]+|option\s+[a-z]|\Z) at
\* position j of t, under re.IGNORECASE
LookAhead(t, j) ==
    LET low == Lower(t)
        a == SkipSpaces(t, j)
        Number(b) ==
            LET c == SkipSpaces(t, b)
            IN /\ c <= Len(t)
               /\ IsDigit(t[c])
               /\ DigitRunEnd(t, c) <= Len(t)
               /\ IsSep(t[DigitRunEnd(t, c)])
    IN \/ j = Len(t) + 1
       \/ Number(a)
       \/ OccursAt(<<"q">>, low, a) /\ Number(a + 1)
       \/ OccursAt(<<"q","u","e","s","t","i","o","n">>, low, a) /\ Number(a + 8)
       \/ /\ OccursAt(<<"o","p","t","i","o","n">>, low, j)
          /\ j + 6 <= Len(t)
          /\ IsSpace(t[j + 6])
          /\ SkipSpaces(t, j + 6) <= Len(t)
          /\ IsAlpha(t[SkipSpaces(t, j + 6)])

\* re.sub(r'\s+[a-z][\.\)]?\s*$', '', q_text, flags=re.IGNORECASE) on a
\* stripped q_text: a trailing option letter goes, with the whitespace
\* before it
DropOptionLetter(s) ==
    LET n == Len(s)
        letter == IF n >= 1 /\ IsAlpha(s[n]) THEN n
                  ELSE IF n >= 2 /\ s[n] \in {".", ")"} /\ IsAlpha(s[n - 1])
                       THEN n - 1 ELSE 0
    IN IF letter >= 2 /\ IsSpace(s[letter - 1])
       THEN SubSeq(s, 1, SpaceRunStart(s, letter) - 1)
       ELSE s

\* lines 129-141: pattern.search(paper_text) for the number num, the
\* cleaning of its group 1 and the length test
QuestionText(paper_text, num) ==
    LET t == paper_text
        occ == {p \in 1..Len(t) :
                  /\ OccursAt(num, t, p)
                  /\ p + Len(num) <= Len(t)
                  /\ IsSep(t[p + Len(num)])}
    IN IF occ = {} THEN None
       ELSE LET from == SepRunEnd(t, Min(occ) + Len(num))
                to == Min({j \in from..(Len(t) + 1) : LookAhead(t, j)})
                q_text == Strip(DropOptionLetter(Strip(SubSeq(t, from, to - 1))))
            IN IF Len(q_text) > 5 THEN q_text ELSE None

\* lines 122-125: paper_text += page.extract_text() + "\n"
RECURSIVE PaperText(_)
PaperText(pages) ==
    IF pages = <<>> THEN <<>>
    ELSE Head(pages) \o <<"\n">> \o PaperText(Tail(pages))

\* get_question_text_from_paper(question_number) with the file doc at
\* paper_pdf_path: a missing or unreadable file raises, and the except
\* clause returns None
get_question_text_from_paper(num, doc) ==
    IF doc = Absent THEN None
    ELSE IF FirstCorrupt(Pages(doc)) # 0 THEN None
    ELSE QuestionText(PaperText(Pages(doc)), num)

\* lines 213-233: the question the rest of handle_query works on
EffectiveQuestion(raw, paper_path, disk) ==
    LET question == Strip(raw)
        lower_q == Lower(question)
    IN IF HasQNum(lower_q) /\ paper_path # None
       THEN LET extracted ==
                  get_question_text_from_paper(QNumDigits(lower_q), disk[paper_path])
            IN IF extracted # None THEN extracted ELSE question
       ELSE question

(***************************************************************************)
(* handle_query: history context, mode detection, retrieval, prompt        *)
(***************************************************************************)
\* the number of history lines the prompt takes: query_history[-5:]
history_window == 5

\* query_history[-5:]
LastLines(history) ==
    SubSeq(history,
           IF Len(history) > history_window
           THEN Len(history) - history_window + 1 ELSE 1,
           Len(history))

\* lines 237-241: history_context
HistoryContext(history) ==
    LET joined == Join(<<"\n">>, LastLines(history))
    IN IF joined # <<>>
       THEN <<"-","-","-"," ","C","o","n","v","e","r","s","a","t","i","o","n"," ","H","i","s","t","o","r","y"," ","-","-","-","\n">> \o joined
            \o <<"\n","-","-","-","-","-","-","-","-","-","-","-","-","-","-","-","-","-","-","-","-","-","-","-","-","-","-","-","-","-","-","\n">>
       ELSE <<>>

\* line 244
full_text_keywords ==
    << <<"e","x","p","l","a","i","n"," ","a","l","l"," ","t","h","e"," ","p","d","f">>, <<"g","i","v","e"," ","m","e"," ","t","h","e"," ","c","o","n","t","e","n","t">>, <<"s","h","o","w"," ","a","l","l"," ","c","o","n","t","e","n","t">>,
       <<"e","x","t","r","a","c","t"," ","a","l","l"," ","t","e","x","t">> >>

\* line 254
comparison_keywords ==
    << <<"c","o","m","p","a","r","e">>, <<"d","i","f","f","e","r","e","n","c","e">>, <<"d","i","f","f","e","r","e","n","t","i","a","t","e">>, <<"d","i","s","t","i","n","g","u","i","s","h">> >>

\* lines 303-308
fluff_words ==
    << <<"n","a","m","e"," ","t","h","e">>, <<"b","r","o","a","d"," ","c","a","t","e","g","o","r","i","e","s"," ","o","f">>, <<"e","x","p","l","a","i","n"," ","t","h","e","m"," ","b","r","i","e","f","l","y">>, <<"t","h","e"," ","f","o","u","r">>,
       <<"a","n","d">>, <<"f","o","r">>, <<"m","a","r","k","s">>, <<"b","r","i","e","f","l","y">>, <<"n","e","a","t"," ","d","i","a","g","r","a","m">>, <<"w","i","t","h"," ","a">>,
       <<"e","x","p","l","a","i","n"," ","t","h","e">>, <<"f","o","l","l","o","w","i","n","g"," ","t","h","e">>, <<"m","o","d","e","l">>, <<"h","o","s","t","s">>, <<"c","o","m","m","u","n","i","c","a","t","i","o","n">>,
       <<"w","h","a","t"," ","i","s">>, <<"w","h","a","t"," ","a","r","e">>, <<"p","l","e","a","s","e"," ","e","x","p","l","a","i","n">>, <<"d","e","s","c","r","i","b","e">>, <<"d","e","f","i","n","i","t","i","o","n">>,
       <<"t","y","p","e"," ","o","f">>, <<"i","n"," ","d","e","t","a","i","l">> >>

\* any(keyword in lower_q for keyword in keywords)
AnyIn(keywords, text) ==
    \E i \in 1..Len(keywords) : Contains(keywords[i], text)

\* line 245
IsFullText(lower_q) == AnyIn(full_text_keywords, lower_q)

\* line 255: is_comparison_request
IsComparison(lower_q) == AnyIn(comparison_keywords, lower_q)

\* ModeOf with the test of line 255 ahead of the test of line 245
ModeOfComparisonFirst(lower_q) ==
    IF IsComparison(lower_q) THEN "COMPARISON"
    ELSE IF IsFullText(lower_q) THEN "FULL_TEXT"
    ELSE "VERBATIM"

\* lines 245, 255 and 297: the mode handle_query answers in
ModeOf(lower_q) ==
    IF IsFullText(lower_q) THEN "FULL_TEXT"
    ELSE IF IsComparison(lower_q) THEN "COMPARISON"
    ELSE "VERBATIM"

\* lines 260-261
ComparisonKeywords(lower_q) ==
    Split(RemoveAll(RemoveAll(RemoveAll(RemoveAll(lower_q, <<"c","o","m","p","a","r","e">>),
                                        <<"d","i","f","f","e","r","e","n","c","e">>),
                              <<"d","i","f","f","e","r","e","n","t","i","a","t","e">>),
                    <<"b","e","t","w","e","e","n">>))

\* lines 310-317: final_keywords
VerbatimKeywords(lower_q) ==
    SelectSeq(Split(lower_q),
              LAMBDA word : word \notin SetOf(fluff_words) /\ Len(word) > 2)

\* line 266 and line 322: the retrieval caps
comparison_cap == 30
verbatim_cap == 25

CapOf(mode) == IF mode = "COMPARISON" THEN comparison_cap ELSE verbatim_cap

KeywordsOf(mode, lower_q) ==
    IF mode = "COMPARISON" THEN ComparisonKeywords(lower_q)
    ELSE VerbatimKeywords(lower_q)

\* any(kw in chunk.lower() for kw in keywords)
Matches(chunk, keywords) == AnyIn(keywords, Lower(chunk))

\* SelectChunks with the slice taken of the store, not of the matches
SelectChunksOfPrefix(chunks, keywords, cap) ==
    SelectSeq(Slice(chunks, 0, cap), LAMBDA chunk : Matches(chunk, keywords))

\* lines 263-266 and 319-322: relevant_chunks
SelectChunks(chunks, keywords, cap) ==
    Slice(SelectSeq(chunks, LAMBDA chunk : Matches(chunk, keywords)), 0, cap)

\* sorted(list(S)) for a set of numbers
RECURSIVE Sorted(_)
Sorted(S) == IF S = {} THEN <<>> ELSE <<Min(S)>> \o Sorted(S \ {Min(S)})

\* lines 271-275: retrieved_pages
RetrievedPages(relevant_chunks) ==
    Sorted({StrToInt(Between(relevant_chunks[i], <<"[","P","a","g","e"," ">>, <<"]">>)) :
               i \in {k \in 1..Len(relevant_chunks) :
                         Contains(<<"[","P","a","g","e"," ">>, relevant_chunks[k])}})

\* line 276: page_ref_string
PageRefString(relevant_chunks) ==
    LET pages == RetrievedPages(relevant_chunks)
    IN <<" ","(","S","o","u","r","c","e","s",":"," ","P","a","g","e","s"," ">>
       \o Join(<<","," ">>, [i \in 1..Len(pages) |-> IntToStr(pages[i])]) \o <<")">>

\* lines 268 and 324: context
Context(relevant_chunks) == Join(<<"\n","-","-","-","\n">>, relevant_chunks)

\* lines 293 and 339: prompt
Prompt(mode, question, history_context, relevant_chunks) ==
    IF mode = "COMPARISON"
    THEN <<"U","s","e","r"," ","Q","u","e","s","t","i","o","n",":"," ">> \o question \o <<"\n","\n","C","O","N","T","E","X","T",":","\n">>
         \o Context(relevant_chunks) \o <<"\n","\n","C","I","T","A","T","I","O","N"," ","S","T","R","I","N","G"," ","T","O"," ","A","P","P","E","N","D",":"," ">>
         \o PageRefString(relevant_chunks)
    ELSE <<"C","O","N","V","E","R","S","A","T","I","O","N"," ","H","I","S","T","O","R","Y",":"," ">> \o history_context \o <<" ","\n","U","s","e","r"," ","Q","u","e","s","t","i","o","n",":"," ">>
         \o question \o <<"\n","\n","C","O","N","T","E","X","T",":","\n">> \o Context(relevant_chunks)

\* lines 278 and 325: mode_info
ModeInfo(mode, relevant_chunks) ==
    IF mode = "COMPARISON" THEN <<"C","o","m","p","a","r","i","s","o","n"," ","M","o","d","e">>
    ELSE <<"V","e","r","b","a","t","i","m"," ","E","x","t","r","a","c","t","i","o","n"," ","M","o","d","e"," ","(","U","s","i","n","g"," ">>
         \o IntToStr(Len(relevant_chunks)) \o <<" ","c","h","u","n","k","s",")">>

\* line 246: full_text
FullText(chunks) == Join(<<"\n","\n">>, chunks)

\* line 249: sources of a FULL_TEXT answer
FullTextSources(chunks) ==
    <<"C","o","m","p","l","e","t","e"," ","c","o","n","t","e","n","t"," ","e","x","t","r","a","c","t","e","d"," ","f","r","o","m"," ","A","L","L"," ","u","p","l","o","a","d","e","d"," ","f","i","l","e","s"," ","(">>
    \o IntToStr(Len(chunks)) \o <<" ","c","h","u","n","k","s",")",".">>

\* the number of characters of an answer the history keeps: answer_text[:50]
answer_cut == 50

\* lines 353-354: the two lines a successful completion appends
HistoryLines(question, answer_text) ==
    << <<"Q",":"," ">> \o question,
       <<"A",":"," ">> \o Slice(answer_text, 0, answer_cut) \o <<".",".",".">> >>

(***************************************************************************)
(* The figure step: lines 357-366 and extract_and_crop_image, lines 40-70  *)
(***************************************************************************)
\* mode == "VERBATIM" and "[FIG:" in answer_text and notes_pdf_path
WantsFigure(mode, answer_text, notes_path) ==
    mode = "VERBATIM" /\ Contains(<<"[","F","I","G",":">>, answer_text) /\ notes_path # None

\* an exception raised inside extract_and_crop_image
Raised == <<"raised">>

\* lines 359-361: page_num, or -1 when split(...)[1] has no such element
\* (IndexError) or no digit is left for int() (ValueError)
FigurePage(answer_text) ==
    LET page_match == Between(answer_text, <<"[","F","I","G",":","P","a","g","e"," ">>, <<"]">>)
    IN IF page_match = None THEN -1
       ELSE IF OnlyDigits(page_match) = <<>> THEN -1
       ELSE StrToInt(OnlyDigits(page_match))

\* what the rendering library does with a file it is asked to open and
\* render: an input of the program
RenderOutcomes == {"ok", "open_error", "render_error"}

\* LoadedPage with an index past the end taken as the last page
LoadedPageClamped(n_pages, page_number) ==
    IF page_number - 1 >= n_pages THEN n_pages
    ELSE IF page_number - 1 < 0 THEN n_pages + page_number
    ELSE page_number

\* doc[page_number - 1]: the page PyMuPDF loads, 0 when it raises IndexError
\* (an index below 0 counts from the last page)
LoadedPage(n_pages, page_number) ==
    IF page_number - 1 >= n_pages THEN 0
    ELSE IF page_number - 1 < 0 THEN n_pages + page_number
    ELSE page_number

\* extract_and_crop_image(pdf_path, page_number) with the file doc at
\* pdf_path: the data URI of the rendered page (here: which page of which
\* document it shows), None when the file does not exist, Raised when
\* opening, indexing or rendering raises
extract_and_crop_image(doc, page_number, outcome) ==
    IF doc = Absent THEN None
    ELSE IF outcome = "open_error" THEN Raised
    ELSE IF LoadedPage(Len(Pages(doc)), page_number) = 0 THEN Raised
    ELSE IF outcome = "render_error" THEN Raised
    ELSE <<"data:image/png", doc, LoadedPage(Len(Pages(doc)), page_number)>>

\* lines 357-366: image_data at line 369
ImageData(mode, answer_text, notes_path, disk, outcome) ==
    IF ~WantsFigure(mode, answer_text, notes_path) THEN None
    ELSE IF FigurePage(answer_text) < 0 THEN None
    ELSE LET image == extract_and_crop_image(disk[notes_path],
                                             FigurePage(answer_text), outcome)
         IN IF image = Raised THEN None ELSE image

\* whether the figure step calls extract_and_crop_image (line 364)
RenderRequested(mode, answer_text, notes_path) ==
    WantsFigure(mode, answer_text, notes_path) /\ FigurePage(answer_text) >= 0

\* what the rendering library can do in a request: it has a choice only
\* when line 364 is reached and line 53 is given a file that exists
OutcomesOf(mode, answer_text, notes_path, disk) ==
    IF RenderRequested(mode, answer_text, notes_path) /\ disk[notes_path] # Absent
    THEN RenderOutcomes
    ELSE {"ok"}

(***************************************************************************)
(* Inputs                                                                  *)
(***************************************************************************)
\* the 'question' field of a /query request
Questions ==
    { <<"e","x","t","r","a","c","t"," ","a","l","l"," ","t","e","x","t">>,
      <<" ","C","o","m","p","a","r","e",":"," ","S","h","o","w"," ","A","l","l"," ","C","o","n","t","e","n","t"," ">>,
      <<"c","o","m","p","a","r","e"," ","t","c","p"," ","u","d","p">>,
      <<"d","i","f","f","e","r","e","n","c","e"," ","b","e","t","w","e","e","n">>,
      <<"w","h","a","t"," ","i","s"," ","t","c","p">>,
      <<"z","z","z">>,
      <<"Q","1">> }

\* the texts the completion service answers with
Answers ==
    { <<"T","C","P"," ","i","s"," ","a"," ","p","r","o","t","o","c","o","l"," ","[","P","a","g","e"," ","1","]">>,
      <<"T","h","e"," ","t","h","r","e","e","-","w","a","y"," ","h","a","n","d","s","h","a","k","e"," ","i","s"," ","d","r","a","w","n"," ","i","n"," ","t","h","e"," ","f","i","g","u","r","e"," ","b","e","l","o","w"," ","[","P","a","g","e"," ","2","]"," ","[","F","I","G",":","P","a","g","e"," ","2","]">>,
      <<"s","e","e"," ","[","F","I","G",":","P","a","g","e"," ","4","0","]">>,
      <<"s","e","e"," ","[","F","I","G",":","2","]">>,
      <<"s","e","e"," ","[","F","I","G",":","P","a","g","e"," ","x","]">> }

\* client.models.generate_content raises APIError, or another exception
ApiError == <<"APIError">>
OtherError == <<"Exception">>

Completions == Answers \cup {ApiError, OtherError}

\* the number of requests of a run
MaxRequests == 3

(***************************************************************************)
(* State                                                                   *)
(***************************************************************************)
VARIABLES
    client,                \* whether genai.Client was created (line 33)
    notes_pdf_path,        \* line 23
    paper_pdf_path,        \* line 24
    document_text_chunks,  \* line 25
    query_history,         \* line 26
    disk,                  \* the temporary directory: path -> document saved
    request,               \* the last request
    response,              \* its response
    locals,                \* what its handler computed and asked for
    pre,                   \* the globals when it arrived
    served,                \* the number of requests served
    up,                    \* the thread of an upload running beside a query
    qt                     \* the thread of that query

vars == <<client, notes_pdf_path, paper_pdf_path, document_text_chunks,
          query_history, disk, request, response, locals, pre, served, up, qt>>

\* what the handlers of a sequence of requests write
sequential == <<request, response, locals, pre, served>>

\* what the two threads of concurrent requests keep
threads == <<up, qt>>

globals == <<notes_pdf_path, paper_pdf_path, document_text_chunks, query_history>>

NoRequest ==
    [op |-> "none", doc |-> NoFile, filename |-> "", saved |-> FALSE,
     question |-> None]

NoResponse ==
    [status |-> 0, error |-> "", chunks_count |-> 0, mode |-> "",
     answer |-> None, sources |-> None, image_data |-> None]

NoLocals ==
    [question |-> None, mode |-> "", keywords |-> <<>>, relevant_chunks |-> <<>>,
     history_context |-> None, prompt |-> None, completion |-> None,
     render |-> None, outcome |-> ""]

\* the upload thread between two requests
NoUpload ==
    [pc |-> "idle", doc |-> NoFile, filename |-> "", new_chunks |-> <<>>,
     before |-> <<>>, status |-> 0, count |-> 0]

\* the query thread between two requests
NoQuery ==
    [pc |-> "idle", l |-> NoLocals, index |-> 0, seen |-> <<>>, matched |-> <<>>,
     answer |-> None, serial |-> FALSE, uploads |-> 0,
     response |-> NoResponse, count |-> 0]

Snapshot ==
    [chunks |-> document_text_chunks, history |-> query_history,
     notes |-> notes_pdf_path, paper |-> paper_pdf_path, disk |-> disk]

\* lines 22-35
Init ==
    /\ client \in BOOLEAN
    /\ notes_pdf_path = None
    /\ paper_pdf_path = None
    /\ document_text_chunks = <<>>
    /\ query_history = <<>>
    /\ disk = [p \in Paths |-> Absent]
    /\ request = NoRequest
    /\ response = NoResponse
    /\ locals = NoLocals
    /\ pre = [chunks |-> <<>>, history |-> <<>>, notes |-> None, paper |-> None,
              disk |-> [p \in Paths |-> Absent]]
    /\ served = 0
    /\ up = NoUpload
    /\ qt = NoQuery

\* jsonify({"error": message}), status
Error(status, message) == [NoResponse EXCEPT !.status = status, !.error = message]

\* jsonify({"message": ..., "chunks_count": count})
Indexed(count) == [NoResponse EXCEPT !.status = 200, !.chunks_count = count]

(***************************************************************************)
(* extract_text_and_chunk, lines 95-105: what a call leaves in the globals *)
(***************************************************************************)
\* ChunksAfter without the clear of line 97
ChunksAfterNoClear(chunks, pages, is_notes_file) ==
    LET new == NewChunks(pages, is_notes_file)
    IN IF ~new.ok THEN chunks ELSE chunks \o new.chunks

\* ChunksAfter with the extend of line 101 moved into the page loop
ChunksAfterEarlyExtend(chunks, pages, is_notes_file) ==
    LET new == NewChunks(pages, is_notes_file)
    IN IF is_notes_file /\ new.ok THEN new.chunks ELSE chunks \o new.chunks

\* document_text_chunks after the call
ChunksAfter(chunks, pages, is_notes_file) ==
    LET new == NewChunks(pages, is_notes_file)
    IN IF ~new.ok THEN chunks
       ELSE IF is_notes_file THEN new.chunks
       ELSE chunks \o new.chunks

\* HistoryAfter with line 98 outside the test of line 96
HistoryAfterAlwaysCleared(history, pages, is_notes_file) ==
    IF NewChunks(pages, is_notes_file).ok THEN <<>> ELSE history

\* query_history after the call
HistoryAfter(history, pages, is_notes_file) ==
    IF NewChunks(pages, is_notes_file).ok /\ is_notes_file THEN <<>> ELSE history

\* the response of an upload handler to the (success, count) returned
UploadResponse(pages, is_notes_file) ==
    LET new == NewChunks(pages, is_notes_file)
    IN IF new.ok THEN Indexed(Len(new.chunks))
       ELSE Error(500, IF is_notes_file THEN "Failed to process Notes PDF."
                       ELSE "Failed to process Question Paper PDF.")

(***************************************************************************)
(* POST /upload-notes, lines 150-174                                       *)
(***************************************************************************)
upload_notes_pdf(doc, filename, saved) ==
    /\ served < MaxRequests
    /\ served' = served + 1
    /\ request' = [NoRequest EXCEPT !.op = "upload-notes", !.doc = doc,
                                    !.filename = filename, !.saved = saved]
    /\ pre' = Snapshot
    /\ locals' = NoLocals
    /\ UNCHANGED <<client, paper_pdf_path, threads>>
    /\ IF doc = NoFile
       THEN \* line 155
            /\ response' = Error(400, "No file part")
            /\ UNCHANGED <<notes_pdf_path, document_text_chunks, query_history, disk>>
       ELSE /\ notes_pdf_path' = NotesPath(filename)
            /\ IF ~saved
               THEN \* pdf_file.save raises: the framework answers 500
                    /\ response' = Error(500, "Internal Server Error")
                    /\ UNCHANGED <<document_text_chunks, query_history, disk>>
               ELSE /\ disk' = [disk EXCEPT ![NotesPath(filename)] = doc]
                    /\ document_text_chunks' =
                           ChunksAfter(document_text_chunks, Pages(doc), TRUE)
                    /\ query_history' = HistoryAfter(query_history, Pages(doc), TRUE)
                    /\ response' = UploadResponse(Pages(doc), TRUE)

(***************************************************************************)
(* POST /upload-paper, lines 177-201                                       *)
(***************************************************************************)
upload_paper_pdf(doc, filename, saved) ==
    /\ served < MaxRequests
    /\ served' = served + 1
    /\ request' = [NoRequest EXCEPT !.op = "upload-paper", !.doc = doc,
                                    !.filename = filename, !.saved = saved]
    /\ pre' = Snapshot
    /\ locals' = NoLocals
    /\ UNCHANGED <<client, notes_pdf_path, threads>>
    /\ IF doc = NoFile
       THEN \* line 182
            /\ response' = Error(400, "No file part")
            /\ UNCHANGED <<paper_pdf_path, document_text_chunks, query_history, disk>>
       ELSE /\ paper_pdf_path' = PaperPath(filename)
            /\ IF ~saved
               THEN \* pdf_file.save raises: the framework answers 500
                    /\ response' = Error(500, "Internal Server Error")
                    /\ UNCHANGED <<document_text_chunks, query_history, disk>>
               ELSE /\ disk' = [disk EXCEPT ![PaperPath(filename)] = doc]
                    /\ document_text_chunks' =
                           ChunksAfter(document_text_chunks, Pages(doc), FALSE)
                    /\ query_history' = HistoryAfter(query_history, Pages(doc), FALSE)
                    /\ response' = UploadResponse(Pages(doc), FALSE)

(***************************************************************************)
(* POST /query, lines 204-381                                              *)
(***************************************************************************)
\* lines 268-339: the locals of a request once its chunks are selected
Assembled(question, mode, keywords, relevant_chunks, history_context) ==
    [question |-> question,
     mode |-> mode,
     keywords |-> keywords,
     relevant_chunks |-> relevant_chunks,
     history_context |-> history_context,
     prompt |-> Prompt(mode, question, history_context, relevant_chunks),
     completion |-> None,
     render |-> None,
     outcome |-> ""]

\* lines 253-322: keywords and relevant_chunks of a COMPARISON or VERBATIM
\* request, with the chunk list the retrieval reads
Retrieved(question, mode, keywords, chunks, history_context) ==
    Assembled(question, mode, keywords,
              SelectChunks(chunks, keywords, CapOf(mode)), history_context)

\* lines 243-251: a FULL_TEXT request returns before any retrieval
Classified(question, lower_q, mode, chunks, history_context) ==
    IF mode = "FULL_TEXT"
    THEN [question |-> question, mode |-> mode, keywords |-> <<>>,
          relevant_chunks |-> <<>>, history_context |-> history_context,
          prompt |-> None, completion |-> None, render |-> None,
          outcome |-> ""]
    ELSE Retrieved(question, mode, KeywordsOf(mode, lower_q), chunks,
                   history_context)

\* lines 218-241: lower_q of the effective question, and history_context
Rewritten(question, chunks, history) ==
    Classified(question, Lower(question), ModeOf(Lower(question)), chunks,
               HistoryContext(history))

\* lines 213-339: the locals of a request that passed the two checks
QueryLocals(raw, chunks, history, paper_path, files) ==
    Rewritten(EffectiveQuestion(raw, paper_path, files), chunks, history)

\* lines 246-251
FullTextResponse(chunks) ==
    [NoResponse EXCEPT !.status = 200, !.answer = FullText(chunks),
                       !.sources = FullTextSources(chunks), !.mode = "FULL_TEXT"]

\* lines 369-374
AnswerResponse(mode, answer_text, relevant_chunks, image_data) ==
    [NoResponse EXCEPT !.status = 200, !.answer = answer_text,
                       !.sources = ModeInfo(mode, relevant_chunks),
                       !.mode = mode, !.image_data = image_data]

\* lines 341-381 for the result of client.models.generate_content
Complete(l, completion, outcome) ==
    IF completion = ApiError
    THEN \* lines 376-378
         /\ response' = Error(500, "API FAILED (QUOTA/KEY)")
         /\ locals' = [l EXCEPT !.completion = completion]
         /\ UNCHANGED query_history
    ELSE IF completion = OtherError
    THEN \* lines 379-381
         /\ response' = Error(500, "SERVER CRASHED")
         /\ locals' = [l EXCEPT !.completion = completion]
         /\ UNCHANGED query_history
    ELSE \* lines 350-374
         /\ query_history' = query_history \o HistoryLines(l.question, completion)
         /\ locals' =
                [l EXCEPT
                   !.completion = completion,
                   !.outcome = outcome,
                   !.render = IF RenderRequested(l.mode, completion, notes_pdf_path)
                              THEN <<notes_pdf_path, FigurePage(completion)>>
                              ELSE None]
         /\ response' =
                AnswerResponse(l.mode, completion, l.relevant_chunks,
                               ImageData(l.mode, completion, notes_pdf_path, disk,
                                         outcome))

\* lines 243-381 for the locals l
Answer(l) ==
    IF l.mode = "FULL_TEXT"
    THEN \* lines 245-251
         /\ response' = FullTextResponse(document_text_chunks)
         /\ locals' = l
         /\ UNCHANGED query_history
    ELSE \* what the completion service and the rendering library do is
         \* theirs to choose; a rendering outcome is drawn only when the
         \* library is given a file to open (lines 45-53)
         \E completion \in Completions, outcome \in RenderOutcomes :
            /\ completion \in Answers
                  => outcome \in OutcomesOf(l.mode, completion, notes_pdf_path, disk)
            /\ completion \notin Answers => outcome = "ok"
            /\ Complete(l, completion, outcome)

\* line 209: not client
NoClient(c) == ~c

\* the check of line 215 left out
NoDocumentUnchecked(chunks) == FALSE

\* line 215: not document_text_chunks
NoDocument(chunks) == chunks = <<>>

handle_query(raw) ==
    /\ served < MaxRequests
    /\ served' = served + 1
    /\ request' = [NoRequest EXCEPT !.op = "query", !.question = raw]
    /\ pre' = Snapshot
    /\ UNCHANGED <<client, notes_pdf_path, paper_pdf_path, document_text_chunks,
                   disk, threads>>
    /\ IF NoClient(client)
       THEN \* line 210
            /\ response' = Error(500, "AI client is not initialized. Check API Key.")
            /\ locals' = NoLocals
            /\ UNCHANGED query_history
       ELSE IF NoDocument(document_text_chunks)
       THEN \* line 216
            /\ response' = Error(400, "Please upload at least one PDF first.")
            /\ locals' = NoLocals
            /\ UNCHANGED query_history
       ELSE Answer(QueryLocals(raw, document_text_chunks,
                               query_history, paper_pdf_path, disk))

Next ==
    \/ \E doc \in NotesDocs, filename \in Filenames, saved \in BOOLEAN :
          upload_notes_pdf(doc, filename, saved)
    \/ upload_notes_pdf(NoFile, "", FALSE)
    \/ \E doc \in PaperDocs, filename \in Filenames, saved \in BOOLEAN :
          upload_paper_pdf(doc, filename, saved)
    \/ upload_paper_pdf(NoFile, "", FALSE)
    \/ \E raw \in Questions : handle_query(raw)

Spec == Init /\ [][Next]_vars

(***************************************************************************)
(* Concurrent requests: app.run(threaded=True), line 389.  One thread      *)
(* handles requests to /upload-notes and another requests to /query; the   *)
(* globals carry no lock, so a thread can be pre-empted between any two    *)
(* accesses of a global.  Each action below is the code between two such   *)
(* accesses.                                                               *)
(***************************************************************************)
\* the files sent to /upload-notes
ConcDocs == {"A", "P"}

\* the 'question' fields
ConcQuestions == { <<"w","h","a","t"," ","i","s"," ","t","c","p">>, <<"e","x","t","r","a","c","t"," ","a","l","l"," ","t","e","x","t">> }

\* what the completion service does
ConcCompletions == { <<"T","C","P"," ","o","p","e","n","s"," ","a"," ","c","o","n","n","e","c","t","i","o","n"," ","[","P","a","g","e"," ","1","]"," ","[","F","I","G",":","P","a","g","e"," ","1","]">>, ApiError }

\* the number of requests each thread handles
ConcUploads == 2
ConcQueries == 1

\* lines 153-161: the request has a file, and the global path is set
u_begin(doc, filename) ==
    /\ up.pc = "idle"
    /\ up.count < ConcUploads
    /\ notes_pdf_path' = NotesPath(filename)
    /\ up' = [up EXCEPT !.pc = "save", !.doc = doc, !.filename = filename,
                        !.new_chunks = <<>>, !.before = document_text_chunks,
                        !.status = 0]
    /\ UNCHANGED <<client, paper_pdf_path, document_text_chunks, query_history,
                   disk, qt, sequential>>

\* line 163: pdf_file.save(current_notes_path)
u_save ==
    /\ up.pc = "save"
    /\ disk' = [disk EXCEPT ![NotesPath(up.filename)] = up.doc]
    /\ up' = [up EXCEPT !.pc = "extract"]
    /\ UNCHANGED <<client, notes_pdf_path, paper_pdf_path, document_text_chunks,
                   query_history, qt, sequential>>

\* lines 166 and 77-93: the pages of the saved file are read into new_chunks;
\* lines 103-105 and 171 when a page raises
u_extract ==
    /\ up.pc = "extract"
    /\ LET new == NewChunks(Pages(disk[NotesPath(up.filename)]), TRUE)
       IN up' = IF new.ok
                THEN [up EXCEPT !.pc = "clear_chunks", !.new_chunks = new.chunks]
                ELSE [up EXCEPT !.pc = "idle", !.status = 500,
                                !.count = up.count + 1]
    /\ UNCHANGED <<client, notes_pdf_path, paper_pdf_path, document_text_chunks,
                   query_history, disk, qt, sequential>>

\* line 97: document_text_chunks.clear()
u_clear_chunks ==
    /\ up.pc = "clear_chunks"
    /\ document_text_chunks' = <<>>
    /\ up' = [up EXCEPT !.pc = "clear_history"]
    /\ UNCHANGED <<client, notes_pdf_path, paper_pdf_path, query_history, disk, qt,
                   sequential>>

\* line 98: query_history.clear()
u_clear_history ==
    /\ up.pc = "clear_history"
    /\ query_history' = <<>>
    /\ up' = [up EXCEPT !.pc = "extend"]
    /\ UNCHANGED <<client, notes_pdf_path, paper_pdf_path, document_text_chunks,
                   disk, qt, sequential>>

\* lines 101-102 and 169-170: document_text_chunks.extend(new_chunks), and the
\* response
u_extend ==
    /\ up.pc = "extend"
    /\ document_text_chunks' = document_text_chunks \o up.new_chunks
    /\ up' = [up EXCEPT !.pc = "idle", !.status = 200, !.count = up.count + 1]
    /\ UNCHANGED <<client, notes_pdf_path, paper_pdf_path, query_history, disk, qt,
                   sequential>>

\* the query thread has answered
Responded(q, resp) ==
    [q EXCEPT !.pc = "idle", !.response = resp, !.count = q.count + 1]

\* lines 206-234: the two checks, and the question rewritten from the paper
q_begin(raw) ==
    /\ qt.pc = "idle"
    /\ qt.count < ConcQueries
    /\ LET q == [NoQuery EXCEPT !.count = qt.count,
                                !.serial = (up.pc = "idle"),
                                !.uploads = up.count]
       IN qt' =
            IF NoClient(client)
            THEN Responded(q, Error(500, "AI client is not initialized. Check API Key."))
            ELSE IF NoDocument(document_text_chunks)
            THEN Responded(q, Error(400, "Please upload at least one PDF first."))
            ELSE [q EXCEPT !.pc = "history",
                           !.l.question = EffectiveQuestion(raw, paper_pdf_path, disk)]
    /\ UNCHANGED <<client, globals, disk, up, sequential>>

\* lines 237-261 and 303-316: query_history is read, then the mode and the
\* keywords are worked out
q_history ==
    /\ qt.pc = "history"
    /\ LET lower_q == Lower(qt.l.question)
           mode == ModeOf(lower_q)
       IN qt' = [qt EXCEPT
                   !.pc = IF mode = "FULL_TEXT" THEN "join" ELSE "scan",
                   !.l.history_context = HistoryContext(query_history),
                   !.l.mode = mode,
                   !.l.keywords = IF mode = "FULL_TEXT" THEN <<>>
                                  ELSE KeywordsOf(mode, lower_q)]
    /\ UNCHANGED <<client, globals, disk, up, sequential>>

\* line 246: "\n\n".join(document_text_chunks)
q_join ==
    /\ qt.pc = "join"
    /\ qt' = [qt EXCEPT !.pc = "count", !.seen = document_text_chunks,
                        !.answer = FullText(document_text_chunks)]
    /\ UNCHANGED <<client, globals, disk, up, sequential>>

\* lines 247-251: len(document_text_chunks), and the response
q_count ==
    /\ qt.pc = "count"
    /\ qt' = Responded(qt, [NoResponse EXCEPT
                              !.status = 200, !.answer = qt.answer,
                              !.sources = FullTextSources(document_text_chunks),
                              !.mode = "FULL_TEXT"])
    /\ UNCHANGED <<client, globals, disk, up, sequential>>

\* ScanDone for an iterator that stops one element early
ScanDoneEarly(index, chunks) == index + 1 >= Len(chunks)

\* the list iterator of lines 263-266 and 319-322 is exhausted
ScanDone(index, chunks) == index >= Len(chunks)

\* lines 263-266 and 319-322: one step of the iteration over
\* document_text_chunks; at its end the slice, and the prompt of lines 268-339
q_scan ==
    /\ qt.pc = "scan"
    /\ qt' =
         IF ScanDone(qt.index, document_text_chunks)
         THEN [qt EXCEPT
                 !.pc = "call",
                 !.l = Assembled(qt.l.question, qt.l.mode, qt.l.keywords,
                                 Slice(qt.matched, 0, CapOf(qt.l.mode)),
                                 qt.l.history_context)]
         ELSE LET chunk == document_text_chunks[qt.index + 1]
              IN [qt EXCEPT
                    !.index = qt.index + 1,
                    !.seen = Append(qt.seen, chunk),
                    !.matched = IF Matches(chunk, qt.l.keywords)
                                THEN Append(qt.matched, chunk)
                                ELSE qt.matched]
    /\ UNCHANGED <<client, globals, disk, up, sequential>>

\* lines 345-350, 376-381: client.models.generate_content
q_call(completion) ==
    /\ qt.pc = "call"
    /\ qt' = IF completion = ApiError
             THEN Responded([qt EXCEPT !.l.completion = completion],
                            Error(500, "API FAILED (QUOTA/KEY)"))
             ELSE [qt EXCEPT !.pc = "append_q", !.l.completion = completion,
                             !.answer = completion]
    /\ UNCHANGED <<client, globals, disk, up, sequential>>

\* line 353: query_history.append(f"Q: {question}")
q_append_q ==
    /\ qt.pc = "append_q"
    /\ query_history' = Append(query_history, HistoryLines(qt.l.question, qt.answer)[1])
    /\ qt' = [qt EXCEPT !.pc = "append_a"]
    /\ UNCHANGED <<client, notes_pdf_path, paper_pdf_path, document_text_chunks,
                   disk, up, sequential>>

\* line 354: query_history.append(f"A: {answer_text[:50]}...")
q_append_a ==
    /\ qt.pc = "append_a"
    /\ query_history' = Append(query_history, HistoryLines(qt.l.question, qt.answer)[2])
    /\ qt' = [qt EXCEPT !.pc = "figure"]
    /\ UNCHANGED <<client, notes_pdf_path, paper_pdf_path, document_text_chunks,
                   disk, up, sequential>>

\* lines 356-374: notes_pdf_path is read, the page is rendered from the file
\* it names, and the response is built
q_figure(outcome) ==
    /\ qt.pc = "figure"
    /\ outcome \in OutcomesOf(qt.l.mode, qt.answer, notes_pdf_path, disk)
    /\ qt' = Responded(
               [qt EXCEPT
                  !.l.outcome = outcome,
                  !.l.render = IF RenderRequested(qt.l.mode, qt.answer, notes_pdf_path)
                               THEN <<notes_pdf_path, FigurePage(qt.answer)>>
                               ELSE None],
               AnswerResponse(qt.l.mode, qt.answer, qt.l.relevant_chunks,
                              ImageData(qt.l.mode, qt.answer, notes_pdf_path, disk,
                                        outcome)))
    /\ UNCHANGED <<client, globals, disk, up, sequential>>

NextConc ==
    \/ \E doc \in ConcDocs, filename \in Filenames : u_begin(doc, filename)
    \/ u_save
    \/ u_extract
    \/ u_clear_chunks
    \/ u_clear_history
    \/ u_extend
    \/ \E raw \in ConcQuestions : q_begin(raw)
    \/ q_history
    \/ q_join
    \/ q_count
    \/ q_scan
    \/ \E completion \in ConcCompletions : q_call(completion)
    \/ q_append_q
    \/ q_append_a
    \/ \E outcome \in RenderOutcomes : q_figure(outcome)

SpecConc == Init /\ [][NextConc]_vars

(***************************************************************************)
(* Properties                                                              *)
(***************************************************************************)
Range(s) == {s[i] : i \in DOMAIN s}

\* the concatenation of a sequence of strings
RECURSIVE Glue(_)
Glue(parts) == IF parts = <<>> THEN <<>> ELSE Head(parts) \o Glue(Tail(parts))

\* the label in front of the text of a chunk of page n
TagOfPage(label, n) == label \o <<" ","[","P","a","g","e"," ">> \o IntToStr(n) \o <<"]"," ">>

\* whether a chunk starts with the label and a page number in brackets
IsLabelled(label, chunk) ==
    /\ Len(chunk) > Len(label) + 7
    /\ SubSeq(chunk, 1, Len(label) + 7) = label \o <<" ","[","P","a","g","e"," ">>
    /\ \E j \in (Len(label) + 9)..Len(chunk) : chunk[j] = "]"

\* the page number a labelled chunk carries
PageOfChunk(label, chunk) ==
    StrToInt(SubSeq(chunk, Len(label) + 8,
                    (CHOOSE j \in (Len(label) + 9)..Len(chunk) : chunk[j] = "]") - 1))

\* the texts body[lo], ..., body[hi] glued in this order
RECURSIVE GlueRange(_, _, _)
GlueRange(body, lo, hi) ==
    IF lo > hi THEN <<>> ELSE body[lo] \o GlueRange(body, lo + 1, hi)

\* the texts, glued in the order of the store, of the chunks at positions
TextAt(body, positions) ==
    IF positions = {} THEN <<>>
    ELSE GlueRange(body, Min(positions),
                   CHOOSE j \in positions : \A k \in positions : k <= j)

\* chunks are the pages cut in page order into consecutive slices of
\* chunk_size characters (the last slice of a page may be shorter), each
\* carrying the label and the number of its page
IsChunkingOf(chunks, pages, label) ==
    LET page == [i \in DOMAIN chunks |-> PageOfChunk(label, chunks[i])]
        body == [i \in DOMAIN chunks |->
                    SubSeq(chunks[i], Len(TagOfPage(label, page[i])) + 1,
                           Len(chunks[i]))]
    IN /\ \A i \in DOMAIN chunks : IsLabelled(label, chunks[i])
       /\ \A i \in DOMAIN chunks :
             /\ page[i] \in DOMAIN pages
             /\ chunks[i] = TagOfPage(label, page[i]) \o body[i]
             /\ Len(body[i]) \in 1..chunk_size
       /\ \A i \in 1..(Len(chunks) - 1) :
             /\ page[i] <= page[i + 1]
             /\ page[i] = page[i + 1] => Len(body[i]) = chunk_size
       /\ \A n \in DOMAIN pages :
             TextAt(body, {i \in DOMAIN chunks : page[i] = n}) = pages[n]

\* the chunks of a store that carry the label
Labelled(chunks, label) ==
    SelectSeq(chunks, LAMBDA c : SubSeq(c, 1, Len(label)) = label)

UploadedNotes == request.op = "upload-notes" /\ response.status = 200
UploadedPaper == request.op = "upload-paper" /\ response.status = 200

\* C1: a successful primary upload leaves in the store exactly the chunks of
\* the new document, in page and slice order, and an empty history; a query
\* changes no chunk and retrieves only chunks of the store it finds, so it can
\* return no chunk of an earlier upload.
NotesUploadReplaces ==
    /\ UploadedNotes =>
          /\ IsChunkingOf(document_text_chunks, Pages(request.doc), <<"[","N","O","T","E","S","]">>)
          /\ query_history = <<>>
    /\ request.op = "query" =>
          /\ document_text_chunks = pre.chunks
          /\ Range(locals.relevant_chunks) \subseteq Range(pre.chunks)

\* a primary upload that found chunks of a primary and of a secondary document
NotesUploadOverBoth ==
    /\ UploadedNotes
    /\ Labelled(pre.chunks, <<"[","N","O","T","E","S","]">>) # <<>>
    /\ Labelled(pre.chunks, <<"[","P","A","P","E","R","]">>) # <<>>
    /\ Range(pre.chunks) \cap Range(document_text_chunks) = {}

\* extraction raises on a page of the uploaded file
ExtractionRaised ==
    /\ request.op \in {"upload-notes", "upload-paper"}
    /\ request.doc # NoFile
    /\ request.saved
    /\ \E n \in DOMAIN Pages(request.doc) : Pages(request.doc)[n] = Corrupt

\* C2: when extraction raises on a page of an uploaded file, primary or
\* secondary, the answer is 500 and the store is what it was before the
\* request, without any chunk of the pages read before the failure.
FailedIngestionCommitsNothing ==
    ExtractionRaised =>
        /\ response.status = 500
        /\ document_text_chunks = pre.chunks

\* extraction raised behind a readable first page, on a store with chunks
FailedAfterReadablePage ==
    /\ ExtractionRaised
    /\ Pages(request.doc)[1] # Corrupt
    /\ pre.chunks # <<>>
    /\ request.op = "upload-paper"

\* the offset in "\n\n".join(chunks) at which chunk i starts
RECURSIVE OffsetOf(_, _)
OffsetOf(chunks, i) ==
    IF i = 1 THEN 0 ELSE OffsetOf(chunks, i - 1) + Len(chunks[i - 1]) + 2

\* text is every chunk in order, two line feeds between neighbours
IsConcatenation(text, chunks) ==
    /\ chunks # <<>>
    /\ Len(text) = OffsetOf(chunks, Len(chunks)) + Len(chunks[Len(chunks)])
    /\ \A i \in DOMAIN chunks :
          SubSeq(text, OffsetOf(chunks, i) + 1, OffsetOf(chunks, i) + Len(chunks[i]))
             = chunks[i]
    /\ \A i \in 2..Len(chunks) :
          SubSeq(text, OffsetOf(chunks, i) - 1, OffsetOf(chunks, i)) = <<"\n","\n">>

\* a query on a non-empty store whose effective question has a full-text
\* trigger phrase
FullTextAsked ==
    /\ request.op = "query"
    /\ pre.chunks # <<>>
    /\ IsFullText(Lower(EffectiveQuestion(request.question, pre.paper, pre.disk)))

\* the answer is the whole store, counted, and no completion was asked for
FullTextAnswered ==
    /\ response.status = 200
    /\ response.mode = "FULL_TEXT"
    /\ IsConcatenation(response.answer, pre.chunks)
    /\ OnlyDigits(response.sources) = IntToStr(Len(pre.chunks))
    /\ locals.prompt = None
    /\ locals.completion = None

\* C3 as stated: every query on a non-empty store whose effective question
\* has a full-text trigger phrase is answered in FULL_TEXT mode with the
\* concatenation of the store and its size, without a completion call.
FullTextAlways == FullTextAsked => FullTextAnswered

\* C3, amended: with the completion client initialised, every query on a
\* non-empty store whose effective question has a full-text trigger phrase,
\* a comparison trigger word or not, is answered in FULL_TEXT mode with the
\* concatenation of the store in store order and the size of the store, and
\* no completion call is made.
FullTextWithClient == (FullTextAsked /\ client) => FullTextAnswered

\* a full-text question that also has a comparison word, on several chunks
FullTextOverComparison ==
    /\ FullTextAsked
    /\ client
    /\ IsComparison(Lower(EffectiveQuestion(request.question, pre.paper, pre.disk)))
    /\ Len(pre.chunks) > 1
    /\ response.status = 200

\* C4: a successful secondary upload leaves the previous store, unchanged and
\* in order, followed by the chunks of the new document; history and primary
\* handle stay as they were.
PaperUploadAppends ==
    UploadedPaper =>
        /\ Len(document_text_chunks) >= Len(pre.chunks)
        /\ SubSeq(document_text_chunks, 1, Len(pre.chunks)) = pre.chunks
        /\ IsChunkingOf(SubSeq(document_text_chunks, Len(pre.chunks) + 1,
                               Len(document_text_chunks)),
                        Pages(request.doc), <<"[","P","A","P","E","R","]">>)
        /\ query_history = pre.history
        /\ notes_pdf_path = pre.notes

\* a secondary upload that found chunks, a history and a primary handle
PaperUploadOverHistory ==
    /\ UploadedPaper
    /\ pre.chunks # <<>>
    /\ pre.history # <<>>
    /\ pre.notes # None
    /\ Len(document_text_chunks) > Len(pre.chunks)

EmptyStoreQuery == request.op = "query" /\ pre.chunks = <<>>

\* no completion was asked for, and store and history are as before
NothingDone ==
    /\ locals.prompt = None
    /\ locals.completion = None
    /\ document_text_chunks = pre.chunks
    /\ query_history = pre.history

\* C5 as stated: a query on an empty store is answered 400, the client
\* initialised or not, without a completion call and without a change of
\* store or history.
EmptyStoreAlways400 == EmptyStoreQuery => (response.status = 400 /\ NothingDone)

\* C5, amended: a query on an empty store is answered 400 when the client is
\* initialised and 500 when it is not; either way no completion call is made
\* and neither store nor history changes.
EmptyStoreRejected ==
    EmptyStoreQuery =>
        /\ response.status = IF client THEN 400 ELSE 500
        /\ NothingDone

\* a query with the client initialised, after an upload that left the store
\* empty
EmptyStoreAfterFailedUpload ==
    /\ EmptyStoreQuery
    /\ client
    /\ pre.notes # None
    /\ response.status = 400

\* the positions of the chunks with a keyword in their lowercased text
MatchingPositions(chunks, keywords) ==
    {i \in DOMAIN chunks :
        \E k \in DOMAIN keywords : Contains(keywords[k], Lower(chunks[i]))}

\* selected is the first cap (or all, when fewer) of the chunks at the
\* positions M, in the order of the store
IsFirstOf(selected, chunks, M, cap) ==
    /\ Len(selected) = Min({cap, Cardinality(M)})
    /\ \A i \in M :
          Cardinality({x \in M : x <= i}) <= cap
             => selected[Cardinality({x \in M : x <= i})] = chunks[i]

\* the prompt has nothing between its CONTEXT header and what follows it
EmptyContext(mode, prompt) ==
    IF mode = "COMPARISON" THEN Contains(<<"C","O","N","T","E","X","T",":","\n","\n","\n","C","I","T","A","T","I","O","N"," ","S","T","R","I","N","G">>, prompt)
    ELSE SubSeq(prompt, Len(prompt) - 8, Len(prompt)) = <<"C","O","N","T","E","X","T",":","\n">>

Retrieving ==
    request.op = "query" /\ locals.mode \in {"COMPARISON", "VERBATIM"}

\* the selection of the last request, M being the positions of the matches
SelectionIsFirstOf(M) ==
    /\ IsFirstOf(locals.relevant_chunks, pre.chunks, M,
                 IF locals.mode = "COMPARISON" THEN 30 ELSE 25)
    /\ M = {} =>
          /\ locals.relevant_chunks = <<>>
          /\ EmptyContext(locals.mode, locals.prompt)
          /\ locals.completion \in Answers => response.status = 200

\* C6: in COMPARISON and VERBATIM mode the selected chunks are the first
\* min(cap, m) of the m chunks of the store that hold a keyword in their
\* lowercased text, in store order, with cap 30 and 25; with no match the
\* selection and the context are empty and the request does not fail.
RetrieverTakesFirstMatches ==
    Retrieving => SelectionIsFirstOf(MatchingPositions(pre.chunks, locals.keywords))

\* a VERBATIM retrieval with more matches than the cap, the matches not a
\* prefix of the store
CappedRetrieval ==
    /\ Retrieving
    /\ locals.mode = "VERBATIM"
    /\ Cardinality(MatchingPositions(pre.chunks, locals.keywords)) > 25
    /\ \E i \in DOMAIN pre.chunks :
          /\ i \notin MatchingPositions(pre.chunks, locals.keywords)
          /\ i + 1 \in MatchingPositions(pre.chunks, locals.keywords)
    /\ Len(locals.relevant_chunks) = 25

\* the completion service answered the last request
Answered == request.op = "query" /\ locals.completion \in Answers

\* the figure step of an answered VERBATIM request cannot produce its image
FigureStepFails ==
    /\ Contains(<<"[","F","I","G",":">>, locals.completion)
    /\ pre.notes # None
    /\ \/ ~Contains(<<"[","F","I","G",":","P","a","g","e"," ">>, locals.completion)
       \/ OnlyDigits(Between(locals.completion, <<"[","F","I","G",":","P","a","g","e"," ">>, <<"]">>)) = <<>>
       \/ pre.disk[pre.notes] = Absent
       \/ locals.outcome # "ok"
       \/ StrToInt(OnlyDigits(Between(locals.completion, <<"[","F","I","G",":","P","a","g","e"," ">>, <<"]">>)))
             > Len(Pages(pre.disk[pre.notes]))

\* C7: after a successful completion the request succeeds with the answer
\* text as the service gave it and with its mode; in VERBATIM mode a figure
\* step that fails (no parsable page number, page out of range, missing file,
\* open or render error) leaves the image field empty; in COMPARISON and
\* FULL_TEXT mode no rendering is requested.
FigureStepBestEffort ==
    /\ Answered =>
          /\ response.status = 200
          /\ response.answer = locals.completion
          /\ response.mode = locals.mode
          /\ (locals.mode = "VERBATIM" /\ FigureStepFails) =>
                response.image_data = None
    /\ (request.op = "query" /\ locals.mode \in {"COMPARISON", "FULL_TEXT"}) =>
          /\ locals.render = None
          /\ response.image_data = None

\* a VERBATIM answer citing a page the stored file does not have
FigurePageOutOfRange ==
    /\ Answered
    /\ locals.mode = "VERBATIM"
    /\ FigureStepFails
    /\ locals.outcome = "ok"
    /\ pre.disk[pre.notes] # Absent
    /\ Contains(<<"[","F","I","G",":","P","a","g","e"," ","4","0","]">>, locals.completion)
    /\ response.status = 200

\* a query of the thread qt that ran while the upload thread was idle
SerialQuery ==
    /\ qt.pc = "idle"
    /\ qt.response.status = 200
    /\ qt.serial
    /\ up.pc = "idle"
    /\ up.count = qt.uploads

\* C8: of a primary upload and a query running as threads without a lock, only
\* a query that overlaps no upload is sure to observe the whole store and to
\* render from the file of the document it observed; TornStaleQuery is the
\* overlapping query the claim says exists.
SerialQueryConsistent ==
    SerialQuery =>
        /\ qt.seen = document_text_chunks
        /\ qt.l.render # None =>
              IsChunkingOf(qt.seen, Pages(disk[qt.l.render[1]]), <<"[","N","O","T","E","S","]">>)

\* a query that observed neither the store the upload found nor the store it
\* left, and rendered a page of a file other than that of its chunks
TornStaleQuery ==
    /\ qt.pc = "idle"
    /\ qt.response.status = 200
    /\ up.before # <<>>
    /\ up.new_chunks # <<>>
    /\ qt.seen \notin {up.before, up.new_chunks}
    /\ qt.l.relevant_chunks # <<>>
    /\ qt.l.render # None
    /\ qt.response.image_data # None
    /\ Range(qt.l.relevant_chunks)
          \cap Range(NewChunks(Pages(disk[qt.l.render[1]]), TRUE).chunks) = {}

\* the lines of the most recent entries of a history, an entry being a
\* question line and its answer line
RecentEntries(history) ==
    SubSeq(history,
           Len(history) - 2 * Min({history_window, Len(history) \div 2}) + 1,
           Len(history))

\* C9 as stated: the prompt of every query sent to the completion service
\* holds the 5 most recent history entries (all when fewer), each a question
\* with its truncated answer, in the order recorded.
PromptCarriesRecentEntries ==
    (request.op = "query" /\ locals.prompt # None) =>
        Contains(Join(<<"\n">>, RecentEntries(pre.history)), locals.prompt)

\* C10 as stated: whenever the store holds the chunks of a primary document,
\* the primary handle names a file of that document, and an image is rendered
\* from no other document.
HandleMatchesStore ==
    \A d \in {"A", "B", "P"} :
        (/\ Labelled(document_text_chunks, <<"[","N","O","T","E","S","]">>) # <<>>
         /\ IsChunkingOf(Labelled(document_text_chunks, <<"[","N","O","T","E","S","]">>), Pages(d),
                         <<"[","N","O","T","E","S","]">>))
        => /\ notes_pdf_path # None
           /\ disk[notes_pdf_path] = d
           /\ (request.op = "query" /\ response.image_data # None)
                 => response.image_data[2] = d
=============================================================================
